---- MODULE Spec2Model ----
(***************************************************************************)
(* vconfig.py: a vconfig-compatible wrapper implemented with ip(8).        *)
(*                                                                         *)
(* One behaviour of this module is one invocation of the script: the       *)
(* environment (argv, effective uid, whether stdin is a terminal, the      *)
(* naming-scheme state file, whether the 8021q module is loaded) is fixed  *)
(* by Init, one handler action runs main() and the handler it dispatches   *)
(* to, and ReadLine is the operator answering one prompt of the            *)
(* interactive ifname recovery loop.  Text is modelled by TLA+ strings;    *)
(* Len, Head, Tail, SubSeq and \o act on them character by character.      *)
(***************************************************************************)
EXTENDS Integers, Sequences, FiniteSets, TLC

VARIABLES
    argv,        \* sys.argv[1:]
    euid,        \* os.geteuid()
    isatty,      \* sys.stdin.isatty()
    modLoaded,   \* os.path.isdir("/sys/module/8021q")
    store,       \* the state file /run/vconfig_name_type
    pc,          \* "start" | "prompt" (blocked in input()) | "done"
    handler,     \* the handler main() dispatched to, or "none"
    execs,       \* every subprocess.run so far: <<[cmd, res], ...>>
    current_cmd, \* run_ip_with_ifname_retry's current_cmd
    suggested,   \* run_ip_with_ifname_retry's suggested
    prompts,     \* the prompts input() has displayed
    entries,     \* the lines the operator has answered (ReadLine)
    stdout,      \* the lines print() wrote to sys.stdout
    stderr,      \* the lines written to sys.stderr
    exitCode,    \* the process exit status, Running until it exits
    term,        \* where the process ended: the line of the die/exit/return
    final_name,  \* the name run_ip_with_ifname_retry returned
    storeReads,  \* number of open(STATE_FILE, "r")
    storeWrites, \* number of open(STATE_FILE, "w")
    scheme_read, \* what read_name_type() returned ("" before it has)
    writes       \* the schemes write_name_type has written, over all invocations

vars == <<argv, euid, isatty, modLoaded, store, pc, handler, execs, current_cmd,
          suggested, prompts, entries, stdout, stderr, exitCode, term,
          final_name, storeReads, storeWrites, scheme_read, writes>>

-----------------------------------------------------------------------------
(* Bounds of the model.                                                    *)

\* The operator answers at most this many prompts with a line; after that
\* the input stream is closed (the only answer left is end of file).
MaxEntries == 2

\* In a sequence of invocations, at most this many set_name_type write the
\* state file.
MaxWrites == 2

-----------------------------------------------------------------------------
(* Text: Python's str operations used by the script.                       *)

Char(s, i) == SubSeq(s, i, i)

Last(q) == q[Len(q)]

\* str.isspace() for one character (the ASCII whitespace the inputs use)
IsSpace(c) == c \in {" ", "\t", "\n", "\r"}

RECURSIVE LStrip(_)
LStrip(s) == IF Len(s) = 0 THEN s
             ELSE IF IsSpace(Head(s)) THEN LStrip(Tail(s)) ELSE s

RECURSIVE RStrip(_)
RStrip(s) == IF Len(s) = 0 THEN s
             ELSE IF IsSpace(Char(s, Len(s))) THEN RStrip(SubSeq(s, 1, Len(s) - 1))
             ELSE s

\* str.strip()
Strip(s) == RStrip(LStrip(s))

\* sub in s
Contains(s, sub) ==
    \E i \in 1..(Len(s) - Len(sub) + 1) : SubSeq(s, i, i + Len(sub) - 1) = sub

UpperCase == "ABCDEFGHIJKLMNOPQRSTUVWXYZ"
LowerCase == "abcdefghijklmnopqrstuvwxyz"

UpperChars == {Char(UpperCase, i) : i \in 1..26}

LowerChar(c) == IF c \in UpperChars
                THEN Char(LowerCase, CHOOSE i \in 1..26 : Char(UpperCase, i) = c)
                ELSE c

RECURSIVE Lower(_)
Lower(s) == IF Len(s) = 0 THEN s ELSE LowerChar(Head(s)) \o Lower(Tail(s))

Digits == "0123456789"

DigitChars == {Char(Digits, i) : i \in 1..10}

IsDigit(c) == c \in DigitChars

DigitVal(c) == (CHOOSE i \in 1..10 : Char(Digits, i) = c) - 1

\* str(n) for an int n >= 0
RECURSIVE Dec(_)
Dec(n) == IF n < 10 THEN Char(Digits, n + 1)
          ELSE Dec(n \div 10) \o Char(Digits, (n % 10) + 1)

RECURSIVE ZeroPad(_, _)
ZeroPad(s, width) == IF Len(s) >= width THEN s ELSE ZeroPad("0" \o s, width)

\* f"{n:04d}" for an int n >= 0
Dec04(n) == ZeroPad(Dec(n), 4)

RECURSIVE Join(_, _)
Join(q, sep) == IF Len(q) = 0 THEN ""
                ELSE IF Len(q) = 1 THEN q[1]
                ELSE q[1] \o sep \o Join(Tail(q), sep)

\* shlex.quote: the characters that need no quoting, [\w@%+=:,./-]
SafeChars == "abcdefghijklmnopqrstuvwxyzABCDEFGHIJKLMNOPQRSTUVWXYZ0123456789_@%+=:,./-"

SafeCharSet == {Char(SafeChars, i) : i \in 1..Len(SafeChars)}

IsSafeChar(c) == c \in SafeCharSet

RECURSIVE EscapeQuotes(_)
EscapeQuotes(s) == IF Len(s) = 0 THEN s
                   ELSE (IF Head(s) = "'" THEN "'\"'\"'" ELSE Head(s))
                        \o EscapeQuotes(Tail(s))

shlex_quote(s) ==
    IF Len(s) = 0 THEN "''"
    ELSE IF \A i \in 1..Len(s) : IsSafeChar(Char(s, i)) THEN s
    ELSE "'" \o EscapeQuotes(s) \o "'"

\* int(s, 10) and int(s): surrounding whitespace stripped, an optional sign,
\* then decimal digits, single underscores allowed between digits.
IntBodyOk(b) ==
    /\ Len(b) > 0
    /\ \A i \in 1..Len(b) : IsDigit(Char(b, i)) \/ Char(b, i) = "_"
    /\ IsDigit(Char(b, 1))
    /\ IsDigit(Char(b, Len(b)))
    /\ \A i \in 1..(Len(b) - 1) : ~(Char(b, i) = "_" /\ Char(b, i + 1) = "_")

RECURSIVE IntBodyVal(_, _)
IntBodyVal(b, acc) ==
    IF Len(b) = 0 THEN acc
    ELSE IF Head(b) = "_" THEN IntBodyVal(Tail(b), acc)
    ELSE IntBodyVal(Tail(b), 10 * acc + DigitVal(Head(b)))

ParseInt(s) ==
    LET t    == Strip(s)
        sign == IF Len(t) > 0 /\ Head(t) \in {"+", "-"} THEN Head(t) ELSE ""
        body == IF sign = "" THEN t ELSE Tail(t)
    IN  IF IntBodyOk(body)
        THEN [ok |-> TRUE,
              val |-> IF sign = "-" THEN 0 - IntBodyVal(body, 0) ELSE IntBodyVal(body, 0)]
        ELSE [ok |-> FALSE, val |-> 0]

-----------------------------------------------------------------------------
(* Program constants and the helpers of the ifname recovery.               *)

STATE_FILE == "/run/vconfig_name_type"

DEFAULT_NAME_TYPE == "DEV_PLUS_VID_NO_PAD"

ALLOWED_NAME_TYPES ==
    {"VLAN_PLUS_VID", "VLAN_PLUS_VID_NO_PAD", "DEV_PLUS_VID", "DEV_PLUS_VID_NO_PAD"}

IFNAMSIZ == 16

MAX_IFNAME_LEN == IFNAMSIZ - 1

\* Optional values: None, and Some(v) for a value that is not None
None == [some |-> FALSE, val |-> ""]

Some(v) == [some |-> TRUE, val |-> v]

\* Python's `x or d` for an Optional[str] x
OrElse(x, d) == IF x.some /\ Len(x.val) > 0 THEN x.val ELSE d

\* A test that takes any output at all for the signature (`if combined:`)
AnyOutputSearch(text) == Len(text) > 0

\* _INVALID_IFNAME_RE.search(text): (invalid ifname|not a valid ifname), IGNORECASE
InvalidIfnameSearch(text) ==
    \/ Contains(Lower(text), "invalid ifname")
    \/ Contains(Lower(text), "not a valid ifname")

\* A validation that forgets the '/' test
_valid_ifname_no_slash(name) ==
    /\ Len(name) > 0
    /\ Len(name) <= IFNAMSIZ - 1
    /\ \A i \in 1..Len(name) : ~IsSpace(Char(name, i))

_valid_ifname(name) ==
    /\ Len(name) > 0
    /\ Len(name) <= MAX_IFNAME_LEN
    /\ \A i \in 1..Len(name) : ~IsSpace(Char(name, i))
    /\ ~Contains(name, "/")

\* The prompt _prompt_for_ifname hands to input().  The source writes the
\* bound with the sign U+2264, which a TLA+ string cannot hold: "<=" here.
PromptText(suggest) ==
    "Interface name is too long/invalid. Enter a shorter name (<="
        \o Dec(MAX_IFNAME_LEN) \o " chars)"
        \o (IF suggest.some /\ Len(suggest.val) > 0 THEN " [" \o suggest.val \o "]" ELSE "")
        \o ": "

\* The line _prompt_for_ifname prints for a locally invalid name
InvalidNotice(name) ==
    "'" \o name \o "' is not a valid ifname. It must be <=" \o Dec(MAX_IFNAME_LEN)
        \o " chars, with no whitespace or '/'. Try again."

\* The line run_ip_with_ifname_retry prints when ip(8) rejects a prompted name
RejectedNotice(name) == "'" \o name \o "' was rejected by ip(8). Let's try another."

\* list.index(tok), 1-based; 0 stands for ValueError
Index(cmd, tok) ==
    IF \E i \in 1..Len(cmd) : cmd[i] = tok
    THEN CHOOSE i \in 1..Len(cmd) : cmd[i] = tok /\ \A j \in 1..(i - 1) : cmd[j] # tok
    ELSE 0

_replace_or_inject_name(cmd, new_name) ==
    LET i == Index(cmd, "name")
        j == Index(cmd, "type")
    IN  IF i # 0
        THEN IF i + 1 <= Len(cmd) THEN [cmd EXCEPT ![i + 1] = new_name]
             ELSE Append(cmd, new_name)
        ELSE IF j # 0
        THEN SubSeq(cmd, 1, j - 1) \o <<"name", new_name>> \o SubSeq(cmd, j, Len(cmd))
        ELSE cmd \o <<"name", new_name>>

_extract_name_from_cmd(cmd) ==
    LET i == Index(cmd, "name")
    IN  IF i # 0 /\ i + 1 <= Len(cmd) THEN Some(cmd[i + 1]) ELSE None

\* f"command failed: {' '.join(map(shlex.quote, cmd))}"
ShlexQuoteAll(cmd) == [i \in 1..Len(cmd) |-> shlex_quote(cmd[i])]

CommandFailed(cmd) == "command failed: " \o Join(ShlexQuoteAll(cmd), " ")

\* proc.stderr.strip() or f"command failed: ..."
FailureText(res, cmd) ==
    IF Len(Strip(res.stderr)) > 0 THEN Strip(res.stderr) ELSE CommandFailed(cmd)

\* suggested = f"vlan{vid}" if vid is not None else None
Suggest(vid) == IF vid.some THEN Some("vlan" \o Dec(vid.val)) ELSE None

\* A vlan_name whose padded schemes pad to three digits
vlan_name_pad3(parent, vid, name_type) ==
    IF name_type = "VLAN_PLUS_VID" THEN "vlan" \o ZeroPad(Dec(vid), 3)
    ELSE IF name_type = "VLAN_PLUS_VID_NO_PAD" THEN "vlan" \o Dec(vid)
    ELSE IF name_type = "DEV_PLUS_VID" THEN parent \o "." \o ZeroPad(Dec(vid), 3)
    ELSE parent \o "." \o Dec(vid)

\* A fallback that ignores the suggestion
AutoNameFixed(suggest) == "vlan0"

\* auto = suggested or "vlan0"; if not _valid_ifname(auto): auto = "vlan0"
AutoName(suggest) ==
    LET auto == OrElse(suggest, "vlan0")
    IN  IF _valid_ifname(auto) THEN auto ELSE "vlan0"

vlan_name(parent, vid, name_type) ==
    IF name_type = "VLAN_PLUS_VID" THEN "vlan" \o Dec04(vid)
    ELSE IF name_type = "VLAN_PLUS_VID_NO_PAD" THEN "vlan" \o Dec(vid)
    ELSE IF name_type = "DEV_PLUS_VID" THEN parent \o "." \o Dec04(vid)
    ELSE IF name_type = "DEV_PLUS_VID_NO_PAD" THEN parent \o "." \o Dec(vid)
    ELSE parent \o "." \o Dec(vid)

\* A parse_vlan_id that takes only the canonical decimal form of an id
parse_vlan_id_canonical(s) ==
    LET p == ParseInt(s)
    IN  IF ~p.ok \/ Dec(IF p.val < 0 THEN 0 ELSE p.val) # s
        THEN [ok |-> FALSE, val |-> 0, msg |-> "invalid vlan_id '" \o s \o "' (use decimal)"]
        ELSE IF ~(0 <= p.val /\ p.val <= 4094)
        THEN [ok |-> FALSE, val |-> 0, msg |-> "vlan_id must be in range 0..4094"]
        ELSE [ok |-> TRUE, val |-> p.val, msg |-> ""]

\* parse_vlan_id: the vid, or the message it dies with
parse_vlan_id(s) ==
    LET p == ParseInt(s)
    IN  IF ~p.ok
        THEN [ok |-> FALSE, val |-> 0, msg |-> "invalid vlan_id '" \o s \o "' (use decimal)"]
        ELSE IF ~(0 <= p.val /\ p.val <= 4094)
        THEN [ok |-> FALSE, val |-> 0, msg |-> "vlan_id must be in range 0..4094"]
        ELSE [ok |-> TRUE, val |-> p.val, msg |-> ""]

\* _on_off: "on"/"off", or not ok when it dies
_on_off(v) ==
    IF v \notin {"0", "1"} THEN [ok |-> FALSE, val |-> ""]
    ELSE [ok |-> TRUE, val |-> IF v = "1" THEN "on" ELSE "off"]

\* mapping.get(flagnum) of cmd_set_flag
FlagName(flagnum) ==
    IF flagnum = "1" THEN Some("reorder_hdr")
    ELSE IF flagnum = "2" THEN Some("gvrp")
    ELSE IF flagnum = "3" THEN Some("mvrp")
    ELSE IF flagnum = "4" THEN Some("loose_binding")
    ELSE None

\* The dispatch table of main()
Handlers == {"add", "rem", "set_flag", "set_egress_map", "set_ingress_map", "set_name_type"}

\* __doc__.strip(), the text usage() prints (its first line stands for it)
UsageDoc == "vconfig.py - a vconfig-compatible wrapper implemented with ip(8)."

-----------------------------------------------------------------------------
(* The process state as a record, and the steps of the code as functions   *)
(* from record to record.  A step applied to a process that is not running *)
(* (it has exited, or it is blocked in input()) changes nothing: die() and *)
(* usage() do not return.                                                  *)

Running == 0 - 1

Cur == [pc |-> pc, handler |-> handler, execs |-> execs, current_cmd |-> current_cmd,
        suggested |-> suggested, prompts |-> prompts, entries |-> entries,
        stdout |-> stdout, stderr |-> stderr, exitCode |-> exitCode, term |-> term,
        final_name |-> final_name, store |-> store,
        storeReads |-> storeReads, storeWrites |-> storeWrites,
        scheme_read |-> scheme_read, writes |-> writes]

Commit(st) ==
    \E s \in {st} :
        /\ pc' = s.pc
        /\ handler' = s.handler
        /\ execs' = s.execs
        /\ current_cmd' = s.current_cmd
        /\ suggested' = s.suggested
        /\ prompts' = s.prompts
        /\ entries' = s.entries
        /\ stdout' = s.stdout
        /\ stderr' = s.stderr
        /\ exitCode' = s.exitCode
        /\ term' = s.term
        /\ final_name' = s.final_name
        /\ store' = s.store
        /\ storeReads' = s.storeReads
        /\ storeWrites' = s.storeWrites
        /\ scheme_read' = s.scheme_read
        /\ writes' = s.writes
        /\ UNCHANGED <<argv, euid, isatty, modLoaded>>

\* A die() that prints without file=sys.stderr
die_to_stdout(st, msg, site) ==
    [st EXCEPT !.pc = "done", !.stdout = Append(@, "vconfig: " \o msg),
               !.exitCode = 1, !.term = site]

\* die(msg, code=1), called from `site`
die(st, msg, site) ==
    [st EXCEPT !.pc = "done", !.stderr = Append(@, "vconfig: " \o msg),
               !.exitCode = 1, !.term = site]

\* A usage() that ends with sys.exit(0)
usage_exit_0(st) ==
    [st EXCEPT !.pc = "done", !.stdout = Append(@, UsageDoc),
               !.exitCode = 0, !.term = "usage"]

\* usage(): print(__doc__.strip()); sys.exit(2)
usage(st) ==
    [st EXCEPT !.pc = "done", !.stdout = Append(@, UsageDoc),
               !.exitCode = 2, !.term = "usage"]

\* An exception nothing catches: the interpreter prints the traceback to
\* sys.stderr and exits with status 1
Uncaught(st, exc) ==
    [st EXCEPT !.pc = "done", !.stderr = Append(@, "Traceback (most recent call last): " \o exc),
               !.exitCode = 1, !.term = "uncaught"]

Live(st) == st.pc = "run"

\* The handler returned: main() falls off its end and the process exits with
\* status 0.  (With no handler, run_ip_with_ifname_retry was called on its
\* own: it returns to its caller, and no process exits.)
Finish(st) ==
    IF ~Live(st) THEN st
    ELSE [st EXCEPT !.pc = "done", !.term = "return",
                    !.exitCode = IF st.handler = "none" THEN Running ELSE 0]

\* subprocess.run(cmd, ...) with the result res of the external program
Exec(st, cmd, res) == [st EXCEPT !.execs = Append(@, [cmd |-> cmd, res |-> res])]

\* run(cmd): dies on a non-zero exit status
run(st, cmd, res) ==
    IF ~Live(st) THEN st
    ELSE IF res.rc = 0 THEN Exec(st, cmd, res)
    ELSE die(Exec(st, cmd, res), FailureText(res, cmd), "run")

ensure_8021q(st, res) ==
    IF ~Live(st) \/ modLoaded THEN st
    ELSE run(st, <<"modprobe", "8021q">>, res)

\* The state file: missing, a file with its content, or a path open() fails
\* on with an OSError other than FileNotFoundError (a directory)
NameTypeOf(st) ==
    IF st.store.kind = "file" /\ Strip(st.store.content) \in ALLOWED_NAME_TYPES
    THEN Strip(st.store.content)
    ELSE DEFAULT_NAME_TYPE

read_name_type(st) ==
    IF ~Live(st) THEN st
    ELSE IF st.store.kind = "dir"
    THEN Uncaught([st EXCEPT !.storeReads = @ + 1], "IsADirectoryError")
    ELSE [st EXCEPT !.storeReads = @ + 1, !.scheme_read = NameTypeOf(st)]

\* A write_name_type that opens the state file for appending
write_name_type_append(st, t) ==
    IF ~Live(st) THEN st
    ELSE IF t \notin ALLOWED_NAME_TYPES
    THEN die(st, "unknown name-type '" \o t \o "'", "write_name_type")
    ELSE IF st.store.kind = "dir"
    THEN Uncaught([st EXCEPT !.storeWrites = @ + 1], "IsADirectoryError")
    ELSE [st EXCEPT !.storeWrites = @ + 1,
                    !.store = [kind |-> "file", content |-> st.store.content \o t],
                    !.writes = Append(@, t)]

\* A write_name_type that writes the state file before it checks the scheme
write_name_type_unchecked(st, t) ==
    IF ~Live(st) THEN st
    ELSE IF st.store.kind = "dir"
    THEN Uncaught([st EXCEPT !.storeWrites = @ + 1], "IsADirectoryError")
    ELSE IF t \notin ALLOWED_NAME_TYPES
    THEN die([st EXCEPT !.storeWrites = @ + 1,
                        !.store = [kind |-> "file", content |-> t]],
             "unknown name-type '" \o t \o "'", "write_name_type")
    ELSE [st EXCEPT !.storeWrites = @ + 1,
                    !.store = [kind |-> "file", content |-> t],
                    !.writes = Append(@, t)]

write_name_type(st, t) ==
    IF ~Live(st) THEN st
    ELSE IF t \notin ALLOWED_NAME_TYPES
    THEN die(st, "unknown name-type '" \o t \o "'", "write_name_type")
    ELSE IF st.store.kind = "dir"
    THEN Uncaught([st EXCEPT !.storeWrites = @ + 1], "IsADirectoryError")
    ELSE [st EXCEPT !.storeWrites = @ + 1,
                    !.store = [kind |-> "file", content |-> t],
                    !.writes = Append(@, t)]

\* A prompt that drops the suggestion (_prompt_for_ifname() without argument)
AwaitEntryNoSuggest(st, suggest) ==
    [st EXCEPT !.pc = "prompt", !.suggested = None,
               !.prompts = Append(@, PromptText(None))]

\* _prompt_for_ifname reaching input(prompt): the prompt is displayed and
\* the process blocks until the operator answers (ReadLine)
AwaitEntry(st, suggest) ==
    [st EXCEPT !.pc = "prompt", !.suggested = suggest,
               !.prompts = Append(@, PromptText(suggest))]

\* return proc, name
Return(st, name) == [st EXCEPT !.final_name = Some(name)]

\* run_ip_with_ifname_retry(cmd, vid) up to its first input(): the first
\* execution (result r1) and, without a terminal, the automatic fallback
\* (result r2)
run_ip_with_ifname_retry(st, cmd, vid, r1, r2) ==
    IF ~Live(st) THEN st
    ELSE LET st1  == Exec([st EXCEPT !.current_cmd = cmd], cmd, r1)
             auto == AutoName(Suggest(vid))
             cmd2 == _replace_or_inject_name(cmd, auto)
             st2  == Exec([st1 EXCEPT !.current_cmd = cmd2, !.suggested = Suggest(vid)],
                          cmd2, r2)
         IN  IF r1.rc = 0
             THEN Return(st1, OrElse(_extract_name_from_cmd(cmd), ""))
             ELSE IF InvalidIfnameSearch(r1.stderr \o r1.stdout)
             THEN IF ~isatty
                  THEN IF r2.rc = 0 THEN Return(st2, auto)
                       ELSE die(st2, FailureText(r1, st2.current_cmd), "retry_auto")
                  ELSE AwaitEntry(st1, Suggest(vid))
             ELSE die(st1, FailureText(r1, st1.current_cmd), "retry_first")

\* A retry_entry that, at the end of the input stream, stays at the prompt
retry_entry_waits_at_eof(st, entry, r) ==
    LET st0  == [st EXCEPT !.pc = "run", !.entries = Append(@, entry)]
        name == IF Len(Strip(entry.text)) > 0 THEN Strip(entry.text)
                ELSE OrElse(st.suggested, "")
        cmd2 == _replace_or_inject_name(st.current_cmd, name)
        st2  == Exec([st0 EXCEPT !.current_cmd = cmd2], cmd2, r)
    IN  IF entry.eof
        THEN st
        ELSE IF ~_valid_ifname(name)
        THEN AwaitEntry([st0 EXCEPT !.stdout = Append(@, InvalidNotice(name))],
                        st.suggested)
        ELSE IF r.rc = 0 THEN Return(st2, name)
        ELSE IF InvalidIfnameSearch(r.stderr \o r.stdout)
        THEN AwaitEntry([st2 EXCEPT !.stdout = Append(@, RejectedNotice(name))],
                        st.suggested)
        ELSE die(st2, FailureText(r, st2.current_cmd), "retry_entry")

\* The operator's answer to the displayed prompt, and the code from there to
\* the next input() or to the end of the process: _prompt_for_ifname's
\* validation, the rewritten command's execution (result r)
retry_entry(st, entry, r) ==
    LET st0  == [st EXCEPT !.pc = "run", !.entries = Append(@, entry)]
        name == IF Len(Strip(entry.text)) > 0 THEN Strip(entry.text)
                ELSE OrElse(st.suggested, "")
        cmd2 == _replace_or_inject_name(st.current_cmd, name)
        st2  == Exec([st0 EXCEPT !.current_cmd = cmd2], cmd2, r)
    IN  IF entry.eof
        THEN die(st0, "Aborted: no valid interface name provided.", "prompt_eof")
        ELSE IF ~_valid_ifname(name)
        THEN AwaitEntry([st0 EXCEPT !.stdout = Append(@, InvalidNotice(name))],
                        st.suggested)
        ELSE IF r.rc = 0 THEN Return(st2, name)
        ELSE IF InvalidIfnameSearch(r.stderr \o r.stdout)
        THEN AwaitEntry([st2 EXCEPT !.stdout = Append(@, RejectedNotice(name))],
                        st.suggested)
        ELSE die(st2, FailureText(r, st2.current_cmd), "retry_entry")

-----------------------------------------------------------------------------
(* The handlers.  Each takes the results the external programs it may run  *)
(* will give.                                                              *)

\* A cmd_add that loads the 8021q module before it validates the VLAN id
cmd_add_modprobe_first(st, args, rm, r1, r2) ==
    IF Len(args) # 2 THEN die(st, "usage: add [interface-name] [vlan_id]", "cmd_add")
    ELSE LET parent   == args[1]
             st1      == ensure_8021q(st, rm)
             v        == parse_vlan_id(args[2])
             st2      == read_name_type(st1)
             name     == vlan_name(parent, v.val, st2.scheme_read)
             base_cmd == <<"ip", "link", "add", "link", parent, "name", name,
                           "type", "vlan", "id", Dec(v.val)>>
         IN  IF Live(st1) /\ ~v.ok THEN die(st1, v.msg, "parse_vlan_id")
             ELSE run_ip_with_ifname_retry(st2, base_cmd, Some(v.val), r1, r2)

cmd_add(st, args, rm, r1, r2) ==
    IF Len(args) # 2 THEN die(st, "usage: add [interface-name] [vlan_id]", "cmd_add")
    ELSE LET parent   == args[1]
             v        == parse_vlan_id(args[2])
             st1      == ensure_8021q(st, rm)
             st2      == read_name_type(st1)
             name     == vlan_name(parent, v.val, st2.scheme_read)
             base_cmd == <<"ip", "link", "add", "link", parent, "name", name,
                           "type", "vlan", "id", Dec(v.val)>>
         IN  IF ~v.ok THEN die(st, v.msg, "parse_vlan_id")
             ELSE run_ip_with_ifname_retry(st2, base_cmd, Some(v.val), r1, r2)

\* A cmd_rem that answers a wrong argument count with usage()
cmd_rem_usage(st, args, r) ==
    IF Len(args) # 1 THEN usage(st)
    ELSE run(st, <<"ip", "link", "delete", args[1]>>, r)

cmd_rem(st, args, r) ==
    IF Len(args) # 1 THEN die(st, "usage: rem [vlan-name]", "cmd_rem")
    ELSE run(st, <<"ip", "link", "delete", args[1]>>, r)

cmd_set_name_type(st, args) ==
    IF Len(args) # 1 THEN die(st, "usage: set_name_type [name-type]", "cmd_set_name_type")
    ELSE write_name_type(st, args[1])

cmd_set_flag(st, args, r) ==
    IF Len(args) = 2
    THEN IF ~_on_off(args[2]).ok THEN die(st, "flag value must be 0 or 1", "_on_off")
         ELSE run(st, <<"ip", "link", "set", "dev", args[1], "type", "vlan",
                        "reorder_hdr", _on_off(args[2]).val>>, r)
    ELSE IF Len(args) = 3
    THEN IF ~FlagName(args[2]).some
         THEN die(st, "flag-num must be one of 1(reorder_hdr), 2(gvrp), 3(mvrp), 4(loose_binding)",
                  "cmd_set_flag")
         ELSE IF ~_on_off(args[3]).ok THEN die(st, "flag value must be 0 or 1", "_on_off")
         ELSE run(st, <<"ip", "link", "set", "dev", args[1], "type", "vlan",
                        FlagName(args[2]).val, _on_off(args[3]).val>>, r)
    ELSE die(st, "usage: set_flag [vlan-name] [flag-num] [0|1] (or) set_flag [vlan-name] [0|1]",
             "cmd_set_flag")

cmd_set_egress_map(st, args, r) ==
    IF Len(args) # 3
    THEN die(st, "usage: set_egress_map [vlan-name] [skb_priority] [vlan_qos]",
             "cmd_set_egress_map")
    ELSE IF ~ParseInt(args[2]).ok \/ ~ParseInt(args[3]).ok
    THEN die(st, "skb_priority and vlan_qos must be integers", "cmd_set_egress_map")
    ELSE run(st, <<"ip", "link", "set", "dev", args[1], "type", "vlan",
                   "egress-qos-map", args[2] \o ":" \o args[3]>>, r)

\* A cmd_set_ingress_map that keeps the command-line order skb:qos
cmd_set_ingress_map_skb_first(st, args, r) ==
    IF Len(args) # 3
    THEN die(st, "usage: set_ingress_map [vlan-name] [skb_priority] [vlan_qos]",
             "cmd_set_ingress_map")
    ELSE IF ~ParseInt(args[2]).ok \/ ~ParseInt(args[3]).ok
    THEN die(st, "skb_priority and vlan_qos must be integers", "cmd_set_ingress_map")
    ELSE run(st, <<"ip", "link", "set", "dev", args[1], "type", "vlan",
                   "ingress-qos-map", args[2] \o ":" \o args[3]>>, r)

cmd_set_ingress_map(st, args, r) ==
    IF Len(args) # 3
    THEN die(st, "usage: set_ingress_map [vlan-name] [skb_priority] [vlan_qos]",
             "cmd_set_ingress_map")
    ELSE IF ~ParseInt(args[2]).ok \/ ~ParseInt(args[3]).ok
    THEN die(st, "skb_priority and vlan_qos must be integers", "cmd_set_ingress_map")
    ELSE run(st, <<"ip", "link", "set", "dev", args[1], "type", "vlan",
                   "ingress-qos-map", args[3] \o ":" \o args[2]>>, r)

\* main(): what sys.argv selects, once ensure_root() has passed
Dispatch ==
    IF Len(argv) < 1 THEN "usage"
    ELSE IF argv[1] \in {"-h", "--help"} THEN "usage"
    ELSE IF argv[1] \in Handlers THEN argv[1]
    ELSE "usage"

\* cmd, *args = sys.argv[1:]
Args == Tail(argv)

\* The running process on entry to handler h
Enter(h) == [Cur EXCEPT !.pc = "run", !.handler = h]

-----------------------------------------------------------------------------
(* The environment: what the external programs answer, what the operator   *)
(* types, and the invocations.                                             *)

\* ExecutionResult of an external program: exit status and captured text
ROk == [rc |-> 0, stderr |-> "", stdout |-> ""]

\* ip(8) rejecting the name, on stderr
RSig == [rc |-> 255, stderr |-> "Error: argument \"name\" is wrong: not a valid ifname\n",
         stdout |-> ""]

\* the signature on stdout only, nothing but a line break on stderr
RSigOut == [rc |-> 1, stderr |-> "\n", stdout |-> "Invalid IFNAME\n"]

\* another failure
ROther == [rc |-> 2, stderr |-> "RTNETLINK answers: File exists\n", stdout |-> ""]

\* a failure that prints nothing
RSilent == [rc |-> 1, stderr |-> "", stdout |-> ""]

Results == {ROk, RSig, RSigOut, ROther, RSilent}

\* What input() gets: end of file, or a line without its line break
EOF == [eof |-> TRUE, text |-> ""]

Line(t) == [eof |-> FALSE, text |-> t]

Entries == {EOF, Line(""), Line(" vlan7 "), Line("my vlan"), Line("a/b"),
            Line("interface-name-16")}

\* sys.argv[1:]
Argvs ==
    { <<>>, <<"-h">>, <<"--help", "add">>, <<"bogus", "eth0">>, <<"remove">>,
      <<"add">>, <<"add", "eth0", "5", "x">>,
      <<"add", "eth0", "5">>, <<"add", "name", "42">>, <<"add", "type", "0">>,
      <<"add", "enp0s31f6u1u2", "4094">>,
      <<"add", "eth0", "4095">>, <<"add", "eth0", "-1">>, <<"add", "eth0", "0x10">>,
      <<"add", "eth0", "010">>, <<"add", "eth0", "five">>,
      <<"rem">>, <<"rem", "eth0.5">>, <<"rem", "eth0.5", "eth0.6">>,
      <<"set_flag", "eth0.5">>, <<"set_flag", "eth0.5", "1">>, <<"set_flag", "eth0.5", "2">>,
      <<"set_flag", "eth0.5", "2", "0">>, <<"set_flag", "eth0.5", "4", "1">>,
      <<"set_flag", "eth0.5", "5", "1">>, <<"set_flag", "eth0.5", "1", "on">>,
      <<"set_flag", "eth0.5", "1", "1", "1">>,
      <<"set_egress_map", "eth0.5", "3">>, <<"set_egress_map", "eth0.5", "3", "7">>,
      <<"set_egress_map", "eth0.5", "3", "x">>,
      <<"set_ingress_map", "eth0.5", "3", "7", "1">>, <<"set_ingress_map", "eth0.5", "3", "7">>,
      <<"set_ingress_map", "eth0.5", "a", "7">>,
      <<"set_name_type">>, <<"set_name_type", "VLAN_PLUS_VID">>,
      <<"set_name_type", "DEV_PLUS_VID_NO_PAD">>, <<"set_name_type", "vlan_plus_vid">>,
      <<"set_name_type", "DEV_PLUS_VID", "x">> }

\* The state file before the invocation
Missing == [kind |-> "missing", content |-> ""]

File(c) == [kind |-> "file", content |-> c]

Directory == [kind |-> "dir", content |-> ""]

Stores == {Missing, File("VLAN_PLUS_VID\n"), File("DEV_PLUS_VID"), File("bogus"), Directory}

Euids == {0, 1000}

\* Arguments of a direct call run_ip_with_ifname_retry(cmd, vid)
RetryCmds ==
    { <<"ip", "link", "add", "link", "eth0", "name", "eth0.5", "type", "vlan", "id", "5">>,
      <<"ip", "link", "add", "link", "eth0", "type", "vlan", "id", "5">>,
      <<"ip", "link", "add", "dummy0">>,
      <<"ip", "link", "add", "name">> }

\* vid: int | None
NoVid == [some |-> FALSE, val |-> 0]

RetryVids == {NoVid, Some(5), Some(4094)}

-----------------------------------------------------------------------------
(* The state machine.                                                      *)

Init ==
    /\ argv \in Argvs
    /\ euid \in Euids
    /\ isatty \in BOOLEAN
    /\ modLoaded \in BOOLEAN
    /\ store \in Stores
    /\ pc = "start"
    /\ handler = "none"
    /\ execs = <<>>
    /\ current_cmd = <<>>
    /\ suggested = None
    /\ prompts = <<>>
    /\ entries = <<>>
    /\ stdout = <<>>
    /\ stderr = <<>>
    /\ exitCode = Running
    /\ term = "none"
    /\ final_name = None
    /\ storeReads = 0
    /\ storeWrites = 0
    /\ scheme_read = ""
    /\ writes = <<>>

\* ensure_root() fails
NotRoot ==
    /\ pc = "start"
    /\ euid # 0
    /\ Commit(die([Cur EXCEPT !.pc = "run"], "must be run as root", "ensure_root"))

\* no command, -h/--help, or a command that is not in the dispatch table
Usage ==
    /\ pc = "start"
    /\ euid = 0
    /\ Dispatch = "usage"
    /\ Commit(usage([Cur EXCEPT !.pc = "run"]))

CmdAdd ==
    /\ pc = "start"
    /\ euid = 0
    /\ Dispatch = "add"
    /\ \E rm \in Results, r1 \in Results, r2 \in Results :
           Commit(Finish(cmd_add(Enter("add"), Args, rm, r1, r2)))

CmdRem ==
    /\ pc = "start"
    /\ euid = 0
    /\ Dispatch = "rem"
    /\ \E r \in Results : Commit(Finish(cmd_rem(Enter("rem"), Args, r)))

CmdSetFlag ==
    /\ pc = "start"
    /\ euid = 0
    /\ Dispatch = "set_flag"
    /\ \E r \in Results : Commit(Finish(cmd_set_flag(Enter("set_flag"), Args, r)))

CmdSetEgressMap ==
    /\ pc = "start"
    /\ euid = 0
    /\ Dispatch = "set_egress_map"
    /\ \E r \in Results :
           Commit(Finish(cmd_set_egress_map(Enter("set_egress_map"), Args, r)))

CmdSetIngressMap ==
    /\ pc = "start"
    /\ euid = 0
    /\ Dispatch = "set_ingress_map"
    /\ \E r \in Results :
           Commit(Finish(cmd_set_ingress_map(Enter("set_ingress_map"), Args, r)))

CmdSetNameType ==
    /\ pc = "start"
    /\ euid = 0
    /\ Dispatch = "set_name_type"
    /\ Commit(Finish(cmd_set_name_type(Enter("set_name_type"), Args)))

\* The operator answers the displayed prompt (or the input stream ends)
ReadLine ==
    /\ pc = "prompt"
    /\ \E e \in Entries, r \in Results :
           /\ Len(entries) < MaxEntries \/ e.eof
           /\ Commit(Finish(retry_entry(Cur, e, r)))

Next ==
    \/ NotRoot
    \/ Usage
    \/ CmdAdd
    \/ CmdRem
    \/ CmdSetFlag
    \/ CmdSetEgressMap
    \/ CmdSetIngressMap
    \/ CmdSetNameType
    \/ ReadLine

Spec == Init /\ [][Next]_vars

\* run_ip_with_ifname_retry called on its own, with any command vector and
\* with or without a vid
InitRetry ==
    /\ Init
    /\ argv = <<>>
    /\ euid = 0
    /\ modLoaded
    /\ store = Missing

CallRetry ==
    /\ pc = "start"
    /\ \E cmd \in RetryCmds, vid \in RetryVids, r1 \in Results, r2 \in Results :
           Commit(Finish(run_ip_with_ifname_retry([Cur EXCEPT !.pc = "run"], cmd, vid, r1, r2)))

NextRetry ==
    \/ CallRetry
    \/ ReadLine

SpecRetry == InitRetry /\ [][NextRetry]_vars

\* The same call in a process that keeps running: every subprocess.run()
\* returns, and every input() returns or raises EOFError
SpecRetryLive == SpecRetry /\ WF_vars(NextRetry)

\* A sequence of invocations by root, without a terminal, over one state
\* file: what one invocation writes the next one reads
ArgvsBatch ==
    { <<"set_name_type", "VLAN_PLUS_VID">>, <<"set_name_type", "VLAN_PLUS_VID_NO_PAD">>,
      <<"set_name_type", "DEV_PLUS_VID">>, <<"set_name_type", "DEV_PLUS_VID_NO_PAD">>,
      <<"set_name_type", "vlan_plus_vid">>, <<"set_name_type">>,
      <<"add", "eth0", "5">>, <<"add", "eth0", "0">>, <<"add", "br-lan", "42">>,
      <<"add", "eth0", "100">>, <<"add", "enp0s31f6u1u2", "4094">>,
      <<"rem", "eth0.5">>, <<"set_flag", "eth0.5", "1">>,
      <<"set_egress_map", "eth0.5", "3", "7">>, <<"set_ingress_map", "eth0.5", "3", "7">>,
      <<"-h">> }

StoresBatch ==
    { Missing, Directory, File(""), File("bogus"), File("vlan_plus_vid"),
      File("VLAN_PLUS_VID\n"), File("  DEV_PLUS_VID  "), File("VLAN_PLUS_VID_NO_PAD"),
      File("DEV_PLUS_VID_NO_PAD\n"), File("DEV_PLUS_VID x") }

InitBatch ==
    /\ Init
    /\ argv \in ArgvsBatch
    /\ euid = 0
    /\ ~isatty
    /\ modLoaded
    /\ store \in StoresBatch

\* The process has exited and vconfig is invoked again: a new process, the
\* state file as the last one left it
Reinvoke ==
    /\ pc = "done"
    /\ \E a \in ArgvsBatch :
           /\ a[1] = "set_name_type" => Len(writes) < MaxWrites
           /\ argv' = a
    /\ pc' = "start"
    /\ handler' = "none"
    /\ execs' = <<>>
    /\ current_cmd' = <<>>
    /\ suggested' = None
    /\ prompts' = <<>>
    /\ entries' = <<>>
    /\ stdout' = <<>>
    /\ stderr' = <<>>
    /\ exitCode' = Running
    /\ term' = "none"
    /\ final_name' = None
    /\ storeReads' = 0
    /\ storeWrites' = 0
    /\ scheme_read' = ""
    /\ UNCHANGED <<euid, isatty, modLoaded, store, writes>>

NextBatch ==
    \/ Usage
    \/ CmdAdd
    \/ CmdRem
    \/ CmdSetFlag
    \/ CmdSetEgressMap
    \/ CmdSetIngressMap
    \/ CmdSetNameType
    \/ Reinvoke

SpecBatch == InitBatch /\ [][NextBatch]_vars

-----------------------------------------------------------------------------
(* Vocabulary of the properties.                                           *)

\* The executions of the link tool, in order (the module loader left out)
IsIp(e) == e.cmd[1] = "ip"

IpExecs == SelectSeq(execs, IsIp)

\* The results that carry the invalid-ifname signature
SigResults == {RSig, RSigOut}

\* The token that follows the first `name` token of a command vector ("" if none)
NameTokenOf(cmd) ==
    IF \E i \in 1..(Len(cmd) - 1) : cmd[i] = "name"
    THEN cmd[(CHOOSE i \in 1..(Len(cmd) - 1) :
                 cmd[i] = "name" /\ \A j \in 1..(i - 1) : cmd[j] # "name") + 1]
    ELSE ""

\* An `add` invocation that got as far as running the link tool
AddRan == handler = "add" /\ Len(IpExecs) >= 1

\* Its parent interface and its VLAN id, from the command line
AddParent == argv[2]

AddVid == ParseInt(argv[3]).val

\* The text a failed attempt is reported with: its stderr without the
\* surrounding whitespace or, when that is empty, the description of its command
AttemptText(e) ==
    IF Len(Strip(e.res.stderr)) > 0 THEN Strip(e.res.stderr)
    ELSE "command failed: " \o Join(ShlexQuoteAll(e.cmd), " ")

\* The terminal states of the recovery controller
Succeeded == pc = "done" /\ final_name.some /\ term = "return"

FailedOther == pc = "done" /\ term \in {"retry_first", "retry_auto", "retry_entry"}

Aborted == pc = "done" /\ term = "prompt_eof"

\* For every vid of the range, vlan<vid> meets the local constraints and is
\* the name the automatic fallback chooses
FallbackOfEveryVid ==
    \A v \in 0..4094 :
        /\ Len("vlan" \o Dec(v)) <= 15
        /\ ParseInt(Dec(v)) = [ok |-> TRUE, val |-> v]
        /\ AutoName(Suggest(Some(v))) = "vlan" \o Dec(v)

\* The prompt that offers vlan<vid>
SuggestingPrompt(vid) ==
    "Interface name is too long/invalid. Enter a shorter name (<=15 chars) [vlan"
        \o Dec(vid) \o "]: "

-----------------------------------------------------------------------------
(* C1.  Non-interactive recovery: when the first execution of the add      *)
(* command fails with the invalid-ifname signature and stdin is not a      *)
(* terminal, exactly one further execution of the link tool happens, its   *)
(* name token is vlan<vid>, and the process has then ended (success or     *)
(* failure) with no prompt and no third execution.                         *)
C1_AutoRetryOnce ==
    (AddRan /\ ~isatty /\ IpExecs[1].res \in SigResults) =>
        /\ pc = "done"
        /\ Len(IpExecs) = 2
        /\ NameTokenOf(IpExecs[2].cmd) = "vlan" \o Dec(AddVid)
        /\ AddVid \in 0..4094
        /\ FallbackOfEveryVid
        /\ prompts = <<>>
        /\ entries = <<>>
        /\ \/ Succeeded /\ exitCode = 0 /\ IpExecs[2].res.rc = 0
           \/ FailedOther /\ exitCode = 1 /\ IpExecs[2].res.rc # 0

C1_Witness ==
    /\ AddRan /\ ~isatty /\ IpExecs[1].res \in SigResults
    /\ Len(IpExecs) = 2
    /\ AddVid = 4094
    /\ NameTokenOf(IpExecs[2].cmd) = "vlan4094"
    /\ Succeeded

(* C2.  Non-interactive recovery: when the automatic fallback attempt      *)
(* fails too, the message on the error stream is the failure text of the   *)
(* first attempt, never text of or about the fallback attempt, and the     *)
(* exit status is 1.                                                       *)
C2_OriginalFailureReported ==
    (AddRan /\ ~isatty /\ Len(IpExecs) = 2 /\ IpExecs[1].res \in SigResults
        /\ IpExecs[2].res.rc # 0) =>
        /\ exitCode = 1
        /\ stderr = <<"vconfig: " \o AttemptText(IpExecs[1])>>
        /\ IpExecs[1].cmd # IpExecs[2].cmd =>
               stderr # <<"vconfig: " \o AttemptText(IpExecs[2])>>

(* C4.  When the first execution fails and its output does not match the   *)
(* signature, the run ends at once, with or without a terminal: no prompt, *)
(* no second execution, the first attempt's failure text on the error      *)
(* stream, exit status 1.                                                  *)
C4_OtherFailureIsFinal ==
    (AddRan /\ IpExecs[1].res.rc # 0 /\ IpExecs[1].res \notin SigResults) =>
        /\ pc = "done"
        /\ Len(IpExecs) = 1
        /\ prompts = <<>>
        /\ entries = <<>>
        /\ stdout = <<>>
        /\ stderr = <<"vconfig: " \o AttemptText(IpExecs[1])>>
        /\ exitCode = 1
        /\ FailedOther

C4_Witness ==
    /\ AddRan /\ isatty
    /\ IpExecs[1].res = ROther
    /\ stderr = <<"vconfig: RTNETLINK answers: File exists">>
    /\ exitCode = 1

(* C5.  The name run_ip_with_ifname_retry returns is the device name the   *)
(* successful execution used: the derived name when the first attempt      *)
(* succeeds, the fallback name after automatic recovery, the operator's    *)
(* last name after interactive recovery; it is the value of the            *)
(* `name <value>` pair of the executed command vector                      *)
(* ip link add link <parent> name <value> type vlan id <vid>.              *)
C5_ReturnedNameIsUsed ==
    (handler = "add" /\ Succeeded) =>
        /\ Last(IpExecs).res.rc = 0
        /\ Last(IpExecs).cmd = <<"ip", "link", "add", "link", AddParent, "name",
                                 final_name.val, "type", "vlan", "id", Dec(AddVid)>>
        /\ Len(IpExecs) = 1 =>
               final_name.val = vlan_name(AddParent, AddVid, NameTypeOf(Cur))
        /\ (Len(IpExecs) = 2 /\ ~isatty) => final_name.val = "vlan" \o Dec(AddVid)
        /\ (Len(IpExecs) >= 2 /\ isatty) =>
               final_name.val = IF Len(Strip(Last(entries).text)) > 0
                                THEN Strip(Last(entries).text)
                                ELSE "vlan" \o Dec(AddVid)

C3_EntryStep == pc = "prompt" /\ handler = "add" /\ Len(execs') = Len(execs) + 1

(* C3.  Interactive recovery loop: a first rejection carrying the          *)
(* signature, with stdin a terminal, leads to a prompt that offers         *)
(* vlan<vid>; every later attempt rejected with the signature is followed  *)
(* by another prompt offering the same suggestion; the loop ends at the    *)
(* first attempt that succeeds; an attempt that fails with other text ends *)
(* the run reporting that attempt's text; once the run has ended there is  *)
(* no further prompt and no further execution.                             *)
C3_InteractiveLoop ==
    [][ /\ (pc = "start" /\ handler' = "add" /\ isatty /\ Len(IpExecs') >= 1
               /\ IpExecs'[1].res \in SigResults) =>
               /\ pc' = "prompt"
               /\ Len(IpExecs') = 1
               /\ prompts' = <<SuggestingPrompt(AddVid)>>
        /\ (C3_EntryStep /\ Last(execs').res.rc = 0) =>
               /\ Succeeded'
               /\ exitCode' = 0
               /\ prompts' = prompts
        /\ (C3_EntryStep /\ Last(execs').res \in SigResults) =>
               /\ pc' = "prompt"
               /\ prompts' = Append(prompts, SuggestingPrompt(AddVid))
        /\ (C3_EntryStep /\ Last(execs').res.rc # 0
               /\ Last(execs').res \notin SigResults) =>
               /\ FailedOther'
               /\ exitCode' = 1
               /\ prompts' = prompts
               /\ stderr' = <<"vconfig: " \o AttemptText(Last(execs'))>>
        /\ pc = "done" => (execs' = execs /\ prompts' = prompts)
      ]_vars

C3_Witness ==
    /\ AddRan /\ isatty
    /\ Len(IpExecs) = 3
    /\ IpExecs[1].res \in SigResults
    /\ IpExecs[2].res \in SigResults
    /\ IpExecs[3].res = ROther
    /\ Len(prompts) = 2
    /\ FailedOther

\* The local constraints on an interface name
LocallyValid(n) ==
    /\ Len(n) >= 1
    /\ Len(n) <= 15
    /\ \A i \in 1..Len(n) : Char(n, i) \notin {" ", "\t", "\n", "\r", "/"}

\* The name an entry stands for: the line without surrounding whitespace,
\* or the offered suggestion when that is empty
EnteredName(e) ==
    IF Len(Strip(e.text)) > 0 THEN Strip(e.text)
    ELSE IF suggested.some THEN suggested.val ELSE ""

C6_EntryStep == pc = "prompt" /\ Len(entries') = Len(entries) + 1

(* C6.  Every name a recovery attempt (automatic or interactive) submits   *)
(* to the link tool is non-empty, at most 15 characters long and holds no  *)
(* whitespace and no '/'.  A locally invalid entry (empty input with no    *)
(* valid suggestion included) is answered by a new prompt, with no         *)
(* execution of the link tool in between.                                  *)
C6_RecoveryNamesValid ==
    /\ [](\A i \in 2..Len(IpExecs) : LocallyValid(NameTokenOf(IpExecs[i].cmd)))
    /\ [][ (C6_EntryStep /\ ~Last(entries').eof /\ ~LocallyValid(EnteredName(Last(entries')))) =>
               /\ execs' = execs
               /\ pc' = "prompt"
               /\ Len(prompts') = Len(prompts) + 1
               /\ exitCode' = Running
         ]_vars

C6_Witness ==
    /\ ~suggested.some
    /\ entries = <<Line(""), Line(" vlan7 ")>>
    /\ Len(prompts) = 2
    /\ Len(IpExecs) = 2
    /\ NameTokenOf(IpExecs[2].cmd) = "vlan7"

(* C7.  When the input stream ends at a prompt of the interactive recovery *)
(* (the first one, one after a locally invalid entry, one after a          *)
(* rejection by the link tool), the run ends Aborted: the line             *)
(* `vconfig: Aborted: no valid interface name provided.` goes to the error *)
(* stream, the exit status is 1 and nothing is executed any more.          *)
C7_EofAborts ==
    [][ /\ (pc = "prompt" /\ handler = "add" /\ Len(entries') = Len(entries) + 1
               /\ Last(entries').eof) =>
               /\ Aborted'
               /\ exitCode' = 1
               /\ stderr' = Append(stderr, "vconfig: Aborted: no valid interface name provided.")
               /\ stdout' = stdout
               /\ execs' = execs
               /\ prompts' = prompts
               /\ ~final_name'.some
        /\ (Len(entries) > 0 /\ Last(entries).eof) => UNCHANGED vars
      ]_vars

C7_Witness ==
    /\ handler = "add"
    /\ entries = <<Line("a/b"), Line(""), EOF>>
    /\ Len(IpExecs) = 2
    /\ IpExecs[2].res \in SigResults
    /\ Aborted

(* C8.  add writes nothing to standard output on a run that exits with     *)
(* status 0, the runs that succeed after ifname recovery included.         *)
C8_NoStdoutOnSuccess ==
    (handler = "add" /\ exitCode = 0) => stdout = <<>>

\* A handler called with a number of arguments it does not take
WrongArgCount ==
    /\ Len(argv) >= 1
    /\ \/ argv[1] = "add" /\ Len(argv) - 1 # 2
       \/ argv[1] = "rem" /\ Len(argv) - 1 # 1
       \/ argv[1] = "set_flag" /\ Len(argv) - 1 \notin {2, 3}
       \/ argv[1] = "set_egress_map" /\ Len(argv) - 1 # 3
       \/ argv[1] = "set_ingress_map" /\ Len(argv) - 1 # 3
       \/ argv[1] = "set_name_type" /\ Len(argv) - 1 # 1

(* C9 as claimed.  A handler called with a wrong number of arguments       *)
(* prints the usage and exits with the usage status 2, not with 1.         *)
C9_WrongArgCountExits2 ==
    (euid = 0 /\ WrongArgCount /\ pc = "done") => exitCode = 2

(* C9 as amended.  A handler called with a wrong number of arguments       *)
(* writes its own one-line synopsis, `vconfig: usage: <command> ...`, to   *)
(* the error stream and exits with the general error status 1; nothing     *)
(* goes to standard output, nothing is executed, the naming-scheme store   *)
(* is not touched.                                                         *)
C9_WrongArgCountExits1 ==
    (euid = 0 /\ WrongArgCount /\ pc = "done") =>
        /\ exitCode = 1
        /\ handler = argv[1]
        /\ Len(stderr) = 1
        /\ SubSeq(stderr[1], 1, Len("vconfig: usage: " \o argv[1] \o " "))
               = "vconfig: usage: " \o argv[1] \o " "
        /\ stdout = <<>>
        /\ execs = <<>>
        /\ storeReads = 0
        /\ storeWrites = 0

C9_Witness ==
    /\ euid = 0
    /\ argv = <<"rem", "eth0.5", "eth0.6">>
    /\ pc = "done"
    /\ exitCode = 1
    /\ stderr = <<"vconfig: usage: rem [vlan-name]">>

\* No command, a help flag, or a first argument that names no handler
NoHandlerNamed ==
    \/ Len(argv) = 0
    \/ /\ Len(argv) >= 1
       /\ \/ argv[1] \in {"-h", "--help"}
          \/ argv[1] \notin {"add", "rem", "set_flag", "set_egress_map",
                             "set_ingress_map", "set_name_type"}

(* C10.  Dispatcher: for a privileged caller, a missing first argument,    *)
(* -h, --help or a first argument that is none of the six command names    *)
(* prints the usage text and exits with status 2; no handler is invoked,   *)
(* the naming-scheme store is neither read nor written, and no external    *)
(* command is executed.                                                    *)
C10_UsageExit ==
    (euid = 0 /\ NoHandlerNamed) =>
        /\ handler = "none"
        /\ storeReads = 0
        /\ storeWrites = 0
        /\ execs = <<>>
        /\ prompts = <<>>
        /\ pc = "done" => (exitCode = 2 /\ stdout = <<UsageDoc>> /\ stderr = <<>>)
        /\ pc \in {"start", "done"}

C10_Witness ==
    /\ euid = 0
    /\ argv = <<"bogus", "eth0">>
    /\ pc = "done"
    /\ exitCode = 2
    /\ stdout = <<UsageDoc>>

-----------------------------------------------------------------------------
(* C11: validation precedes execution.                                      *)

\* The places where a handler rejects its arguments
ValidationSites ==
    { "cmd_add", "parse_vlan_id", "cmd_rem", "cmd_set_name_type", "write_name_type",
      "cmd_set_flag", "_on_off", "cmd_set_egress_map", "cmd_set_ingress_map" }

\* The invocations the claim lists: a flag-num outside 1..4, a flag value
\* other than 0 or 1, a non-integer skb or qos, an out-of-range or non-decimal
\* VLAN id, an unknown naming scheme, a wrong argument count
RejectedArgvs ==
    { <<"set_flag", "eth0.5", "5", "1">>, <<"set_flag", "eth0.5", "1", "on">>,
      <<"set_flag", "eth0.5", "2">>,
      <<"set_egress_map", "eth0.5", "3", "x">>, <<"set_ingress_map", "eth0.5", "a", "7">>,
      <<"add", "eth0", "4095">>, <<"add", "eth0", "-1">>, <<"add", "eth0", "0x10">>,
      <<"add", "eth0", "five">>,
      <<"set_name_type", "vlan_plus_vid">> }

EndsInValidationError == pc = "done" /\ (term \in ValidationSites \/ term = "usage")

\* C11: an invocation that ends in a validation or usage error has executed
\* no external process, neither ip nor modprobe; and each of the rejected
\* invocations the claim lists, run as root, does end in such an error.
C11_ValidationPrecedesExecution ==
    /\ EndsInValidationError => execs = <<>>
    /\ (pc = "done" /\ euid = 0 /\ (argv \in RejectedArgvs \/ WrongArgCount))
           => (term \in ValidationSites /\ execs = <<>> /\ exitCode = 1)

\* An add with an out-of-range id, with the 8021q module not loaded, has ended
C11_Witness ==
    /\ pc = "done" /\ euid = 0 /\ ~modLoaded
    /\ argv = <<"add", "eth0", "4095">>
    /\ term = "parse_vlan_id" /\ execs = <<>>

-----------------------------------------------------------------------------
(* C13: the VLAN id of `add`.                                               *)

\* An `add` with both arguments, run as root, that has ended
AddEnded == pc = "done" /\ euid = 0 /\ Len(argv) = 3 /\ argv[1] = "add"

AddRejected == term = "parse_vlan_id" /\ exitCode = 1 /\ execs = <<>>

\* The id token of a command vector `... type vlan id <vid>`
IdTokenOf(cmd) == cmd[Len(cmd)]

\* The id strings of the modelled invocations and what each one stands for
\* in the command vector ("" for an id that is not a decimal id in range)
IdRendering ==
    [s \in {"0", "5", "42", "4094", "010", "4095", "-1", "0x10", "five"} |->
        CASE s = "010" -> "10"
          [] s \in {"0", "5", "42", "4094"} -> s
          [] OTHER -> ""]

\* The decimal digits of n, most significant first, without leading zeros
RECURSIVE Numeral(_)
Numeral(n) ==
    IF n < 10 THEN SubSeq("0123456789", n + 1, n + 1)
    ELSE Numeral(n \div 10) \o SubSeq("0123456789", (n % 10) + 1, (n % 10) + 1)

\* Over the whole id range: the canonical numeral of every id in 0..4094 is
\* accepted with its value, and so is the numeral with leading zeros or
\* surrounding blanks; the numeral with an 0x prefix, the negative numeral
\* and every numeral above 4094 (to 4200) are rejected
ParseOfEveryVid ==
    /\ \A v \in 0..4094 :
          /\ parse_vlan_id(Numeral(v)) = [ok |-> TRUE, val |-> v, msg |-> ""]
          /\ parse_vlan_id("0" \o Numeral(v)).ok /\ parse_vlan_id("0" \o Numeral(v)).val = v
          /\ ~parse_vlan_id("0x" \o Numeral(v)).ok
          /\ v > 0 => ~parse_vlan_id("-" \o Numeral(v)).ok
    /\ \A v \in 4095..4200 : ~parse_vlan_id(Numeral(v)).ok
    /\ parse_vlan_id(" 7\n").ok /\ parse_vlan_id("+7").ok /\ parse_vlan_id("4_0").val = 40
    /\ ~parse_vlan_id("").ok /\ ~parse_vlan_id("0o10").ok /\ ~parse_vlan_id("1e3").ok

(* C13 as claimed.  parse_vlan_id rejects every string that could be read  *)
(* as octal or hexadecimal, the 0x prefix and the leading-zero form 010     *)
(* alike, and every out-of-range id; 4094 is accepted, 4095 and -1 are not. *)
C13_LeadingZeroRejected ==
    AddEnded =>
        /\ argv[3] \in {"0x10", "010", "4095", "-1"} => AddRejected
        /\ argv[3] = "4094" => term # "parse_vlan_id"

\* C13, amended: parse_vlan_id accepts what int(s, 10) reads as an integer in
\* 0..4094, a numeral with leading zeros included (010 is the id 10), and
\* rejects the 0x prefix, non-numerals and ids outside the range (4095, -1)
\* with status 1 and nothing executed; every command vector of an accepted
\* add carries the id as its canonical decimal numeral.
C13_VlanIdDecimal ==
    /\ ParseOfEveryVid
    /\ AddEnded =>
          /\ argv[3] \in DOMAIN IdRendering
          /\ IdRendering[argv[3]] = "" => AddRejected
          /\ IdRendering[argv[3]] # "" =>
                /\ term \notin {"parse_vlan_id", "cmd_add"}
                /\ \A i \in 1..Len(IpExecs) : IdTokenOf(IpExecs[i].cmd) = IdRendering[argv[3]]

\* `add eth0 010` has run the link tool with `id 10`
C13_Witness ==
    /\ AddEnded /\ argv[3] = "010"
    /\ Len(IpExecs) >= 1 /\ IdTokenOf(IpExecs[1].cmd) = "10"

-----------------------------------------------------------------------------
(* C14: the QoS map pairs.                                                  *)

\* A set_egress_map / set_ingress_map <dev> <skb> <qos> that ran the link tool
QosMapRan ==
    /\ handler \in {"set_egress_map", "set_ingress_map"}
    /\ Len(argv) = 4 /\ Len(execs) >= 1

\* The command vector `ip link set dev <dev> type vlan <keyword> <pair>`
QosMapCmd(dev, keyword, pair) ==
    <<"ip", "link", "set", "dev", dev, "type", "vlan", keyword, pair>>

\* C14: set_egress_map <dev> <skb> <qos> executes exactly one command, ending
\* in `egress-qos-map <skb>:<qos>`; set_ingress_map <dev> <skb> <qos> executes
\* exactly one, ending in `ingress-qos-map <qos>:<skb>`; with skb = 3 and
\* qos = 7 the pairs are 3:7 and 7:3.
C14_QosMapOrder ==
    QosMapRan =>
        /\ Len(execs) = 1
        /\ argv[1] = "set_egress_map" =>
              execs[1].cmd = QosMapCmd(argv[2], "egress-qos-map", argv[3] \o ":" \o argv[4])
        /\ argv[1] = "set_ingress_map" =>
              execs[1].cmd = QosMapCmd(argv[2], "ingress-qos-map", argv[4] \o ":" \o argv[3])
        /\ (argv[3] = "3" /\ argv[4] = "7") =>
              Last(execs[1].cmd) = (IF argv[1] = "set_egress_map" THEN "3:7" ELSE "7:3")

\* set_ingress_map eth0.5 3 7 has run the link tool with the pair 7:3
C14_Witness ==
    /\ QosMapRan /\ argv = <<"set_ingress_map", "eth0.5", "3", "7">>
    /\ Last(execs[1].cmd) = "7:3"

-----------------------------------------------------------------------------
(* C16: reading the naming scheme.                                          *)

\* The scheme a read of the store is to return: the trimmed content when it
\* is one of the four schemes, the default in every other state of the store
SchemeInStore ==
    IF store.kind = "file" /\ Strip(store.content) \in ALLOWED_NAME_TYPES
    THEN Strip(store.content)
    ELSE "DEV_PLUS_VID_NO_PAD"

\* An `add` that has come to its read of the naming scheme
AddReadScheme == handler = "add" /\ storeReads >= 1

(* C16 as claimed.  read_name_type never fails: in every state of the      *)
(* store, a missing file, one that cannot be read, one with any content,    *)
(* the invocation goes on past the read with one of the four schemes, the   *)
(* default when the store holds no scheme or cannot be read.                *)
C16_ReadNeverFails ==
    AddReadScheme =>
        /\ term # "uncaught"
        /\ pc = "done" => Len(IpExecs) >= 1
        /\ Len(IpExecs) >= 1 =>
              IpExecs[1].cmd[7] = vlan_name(AddParent, AddVid, SchemeInStore)

-----------------------------------------------------------------------------
(* C17: command rewriting.                                                  *)

\* The command vector `ip link add link <parent> name <n> type vlan id <vid>`
AddCmd(parent, n, vid) ==
    <<"ip", "link", "add", "link", parent, "name", n, "type", "vlan", "id", vid>>

(* C17 as claimed.  Rewriting changes the device name and nothing else: for *)
(* every parent, a parent called `name` or `type` included, every vid and   *)
(* every replacement name, each command vector an add executes, after any   *)
(* number of rewrites, is `ip link add link <parent> name <n> type vlan id  *)
(* <vid>` for some device name n, the replacement name in a rewritten one.  *)
C17_OnlyNameRewritten ==
    AddRan =>
        \A i \in 1..Len(IpExecs) :
            \E n \in {IpExecs[i].cmd[7]} :
                /\ IpExecs[i].cmd = AddCmd(AddParent, n, IdRendering[argv[3]])
                /\ i >= 2 => LocallyValid(n)

-----------------------------------------------------------------------------
(* C18: what changes the persisted naming scheme.                           *)

FourSchemes ==
    {"VLAN_PLUS_VID", "VLAN_PLUS_VID_NO_PAD", "DEV_PLUS_VID", "DEV_PLUS_VID_NO_PAD"}

\* A step of a set_name_type <scheme> invocation, run as root with one of the
\* four schemes, that ends it with success
SetNameTypeSucceeds ==
    /\ euid = 0 /\ Len(argv) = 2 /\ argv[1] = "set_name_type" /\ argv[2] \in FourSchemes
    /\ pc' = "done" /\ exitCode' = 0

\* A set_name_type invocation that names no scheme of the four
SetNameTypeInvalid ==
    euid = 0 /\ Len(argv) = 2 /\ argv[1] = "set_name_type" /\ argv[2] \notin FourSchemes

\* C18: the state file changes only in a step of a successful set_name_type,
\* and then to the scheme given; no step of add, rem, set_flag, the QoS maps,
\* help or any failing invocation changes it, and none but a set_name_type
\* with one of the four schemes opens it for writing; an invalid
\* set_name_type ends with status 1; the names of the ifname recovery (the
\* fallback name, the names entered) never reach the state file.
C18_StoreChangesOnlyBySetNameType ==
    /\ [][ /\ store' # store =>
                  (SetNameTypeSucceeds /\ store' = [kind |-> "file", content |-> argv[2]])
           /\ storeWrites' # storeWrites =>
                  (Len(argv) = 2 /\ argv[1] = "set_name_type" /\ argv[2] \in FourSchemes) ]_vars
    /\ []((SetNameTypeInvalid /\ pc = "done") => (exitCode = 1 /\ storeWrites = 0))
    /\ []((final_name.some \/ Len(entries) > 0) => storeWrites = 0)

\* set_name_type VLAN_PLUS_VID has replaced a state file that held another scheme
C18_Witness ==
    /\ pc = "done" /\ argv = <<"set_name_type", "VLAN_PLUS_VID">>
    /\ storeWrites = 1 /\ store = [kind |-> "file", content |-> "VLAN_PLUS_VID"]

-----------------------------------------------------------------------------
(* C19: termination of the ifname recovery.                                 *)

\* The number of the three terminal states the controller is in
TerminalCount ==
    (IF Succeeded THEN 1 ELSE 0) + (IF FailedOther THEN 1 ELSE 0) + (IF Aborted THEN 1 ELSE 0)

\* C19: when every execution of the tool returns and the input stream ends,
\* every run of run_ip_with_ifname_retry comes to an end, in exactly one of
\* Succeeded, FailedOther and Aborted; from there nothing more is prompted or
\* executed; a run without a terminal ends with its call, after two
\* executions at most and no prompt, and every step that leaves the run
\* unfinished is one of the interactive sequence, waiting at a prompt.
C19_RetryTerminates ==
    /\ <>(pc = "done")
    /\ [](pc = "done" => TerminalCount = 1)
    /\ [](pc # "done" => TerminalCount = 0)
    /\ [][pc = "done" => (execs' = execs /\ prompts' = prompts /\ entries' = entries)]_vars
    /\ [][pc' # "done" => (isatty /\ pc' = "prompt" /\ Len(prompts') = Len(prompts) + 1)]_vars
    /\ [](~isatty => (prompts = <<>> /\ Len(execs) <= 2))

\* A run that ended Aborted after the operator's names were turned down
C19_Witness ==
    /\ Aborted /\ isatty
    /\ Len(entries) = MaxEntries + 1 /\ Len(execs) >= 2

-----------------------------------------------------------------------------
(* C12: the derived VLAN device name.                                       *)

\* The numeral of vid, zero-padded to four digits
Padded4(vid) ==
    (IF vid < 10 THEN "000" ELSE IF vid < 100 THEN "00" ELSE IF vid < 1000 THEN "0" ELSE "")
        \o Numeral(vid)

\* The table of the four schemes
NameTable(parent, vid, scheme) ==
    CASE scheme = "VLAN_PLUS_VID"        -> "vlan" \o Padded4(vid)
      [] scheme = "VLAN_PLUS_VID_NO_PAD" -> "vlan" \o Numeral(vid)
      [] scheme = "DEV_PLUS_VID"         -> parent \o "." \o Padded4(vid)
      [] scheme = "DEV_PLUS_VID_NO_PAD"  -> parent \o "." \o Numeral(vid)

TableParents == {"eth0", "br-lan", "enp0s31f6u1u2", "name", "type", ""}

\* vlan_name is the table entry for every vid of the range, every scheme and
\* every parent of TableParents
NameOfEveryVid ==
    \A vid \in 0..4094 : \A scheme \in FourSchemes : \A parent \in TableParents :
        vlan_name(parent, vid, scheme) = NameTable(parent, vid, scheme)

\* The VLAN ids of the add invocations of ArgvsBatch
BatchVid ==
    [s \in {"0", "5", "42", "100", "4094"} |->
        CASE s = "0" -> 0 [] s = "5" -> 5 [] s = "42" -> 42 [] s = "100" -> 100
          [] s = "4094" -> 4094]

\* C12: vlan_name(parent, vid, scheme) is the table entry, for every parent,
\* every vid in 0..4094 and each of the four schemes, and it depends on
\* nothing else: whatever invocations came before, the device name of the
\* command an add first executes is the table entry for its parent, its vid
\* and the scheme it has read.
C12_VlanNameTable ==
    /\ NameOfEveryVid
    /\ AddRan =>
          /\ scheme_read \in FourSchemes
          /\ IpExecs[1].cmd[7] = NameTable(argv[2], BatchVid[argv[3]], scheme_read)

\* add br-lan 42 under the scheme DEV_PLUS_VID, written by an earlier
\* invocation, has run `... name br-lan.0042 ...`
C12_Witness ==
    /\ AddRan /\ argv = <<"add", "br-lan", "42">>
    /\ scheme_read = "DEV_PLUS_VID" /\ writes # <<>>
    /\ IpExecs[1].cmd[7] = "br-lan.0042"

-----------------------------------------------------------------------------
(* C15: the naming scheme's round trip.                                     *)

\* A set_name_type <scheme> with one of the four schemes that has ended
SetNameTypeEnded ==
    pc = "done" /\ Len(argv) = 2 /\ argv[1] = "set_name_type" /\ argv[2] \in FourSchemes

\* C15: from any state of the store, once write_name_type(s) has written one
\* of the four schemes, the next read_name_type() returns s, and after two
\* writes it returns the one written last; the write itself succeeds from
\* every state in which the state file can be opened.
C15_RoundTrip ==
    /\ (scheme_read # "" /\ writes # <<>>) => scheme_read = Last(writes)
    /\ (SetNameTypeEnded /\ store.kind # "dir") =>
           (exitCode = 0 /\ writes # <<>> /\ Last(writes) = argv[2])
    /\ writes # <<>> => Last(writes) \in FourSchemes

\* An add has read the second of two different schemes written before it
C15_Witness ==
    /\ Len(writes) = 2 /\ writes[1] # writes[2]
    /\ handler = "add" /\ scheme_read = writes[2]

====
